---- MODULE Spec2Model ----
(***************************************************************************)
(* LoadProjectsIamPoliciesPipeline (forseti-security inventory): one run   *)
(* of retrieve -> flatten -> load -> count against a data access object    *)
(* (dao), a CRM API client and a member parser.                            *)
(*                                                                         *)
(* Python strings whose characters matter (roles, members) are sequences   *)
(* of one-character strings; a Python dict is a record whose DOMAIN is the *)
(* set of keys present; None is the empty sequence and a present value v   *)
(* of an optional is <<v>>.                                                *)
(***************************************************************************)
EXTENDS Integers, Sequences, FiniteSets, TLC

VARIABLES
    pc,                      \* position of run() in the code
    cycle_timestamp,         \* self.cycle_timestamp, given at construction
    project_numbers,         \* result of dao.select_project_numbers
    idx,                     \* position of the for loop of _retrieve
    iam_policy_maps,         \* the list built by _retrieve, mutated by _load
    generator,               \* the generator object _flatten returns
    flattened_iam_policies,  \* the records that generator has yielded
    tables,                  \* the dao's tables: resource name -> rows
    count,                   \* self.count, set by _get_loaded_count
    raised,                  \* the exception run() has propagated, if any
    calls,                   \* the calls made to the collaborators, in order
    logged,                  \* the project numbers passed to logger.error
    use_cloud_logging,       \* FLAGS.use_cloud_logging
    nouse_cloud_logging,     \* FLAGS.nouse_cloud_logging
    is_gce,                  \* whether the process runs on Compute Engine
    debug_env,               \* whether the DEBUG environment variable is set
    loggers                  \* logging's loggers: module name -> logger

pipeline_vars == <<pc, cycle_timestamp, project_numbers, idx, iam_policy_maps,
                   generator, flattened_iam_policies, tables, count, raised,
                   calls, logged>>

log_vars == <<use_cloud_logging, nouse_cloud_logging, is_gce, debug_env,
              loggers>>

vars == <<pipeline_vars, log_vars>>

-----------------------------------------------------------------------------
(* Bounds and input sets *)

MaxSelected == 2

ProjectNumbers == {111, 222, 333}

CycleTimestamps == {"20170102T000000Z", "20170103T000000Z"}

PriorCycleTimestamp == "20170101T000000Z"

None == <<>>

-----------------------------------------------------------------------------
(* Class constants *)

RESOURCE_NAME == "project_iam_policies"

RAW_RESOURCE_NAME == "raw_project_iam_policies"

ROLES_PREFIX == <<"r", "o", "l", "e", "s", "/">>

-----------------------------------------------------------------------------
(* Python string and dict primitives *)

\* dict.get(key, default)
Get(d, key, default) == IF key \in DOMAIN d THEN d[key] ELSE default

\* str.startswith(prefix)
startswith(s, prefix) ==
    /\ Len(s) >= Len(prefix)
    /\ SubSeq(s, 1, Len(prefix)) = prefix

RECURSIVE replace(_, _, _)
\* str.replace(old, new): every non-overlapping occurrence, left to right
replace(s, old, new) ==
    IF s = <<>> THEN <<>>
    ELSE IF startswith(s, old)
         THEN new \o replace(SubSeq(s, Len(old) + 1, Len(s)), old, new)
         ELSE <<Head(s)>> \o replace(Tail(s), old, new)

\* json.dumps(obj): the serialized text of obj, no longer a dict
json_dumps(obj) == [json |-> obj]

\* whether a payload is serialized text rather than a dict
IsText(obj) == "json" \in DOMAIN obj

RECURSIVE BeforeText(_)
\* the policy records that come before the first one whose payload is text
BeforeText(maps) ==
    IF maps = <<>> \/ IsText(Head(maps).iam_policy) THEN <<>>
    ELSE <<Head(maps)>> \o BeforeText(Tail(maps))

\* position of the first occurrence of character c in s, 0 if none
IndexOf(s, c) ==
    IF \E i \in 1..Len(s) : s[i] = c
    THEN CHOOSE i \in 1..Len(s) : s[i] = c /\ \A j \in 1..(i - 1) : s[j] # c
    ELSE 0

\* parser.parse_member_info: "type:name@domain" -> (type, name, domain)
parse_member_info(member) ==
    LET i == IndexOf(member, ":")
        email == SubSeq(member, i + 1, Len(member))
        j == IndexOf(email, "@")
    IN  <<SubSeq(member, 1, i - 1),
          IF j > 0 THEN SubSeq(email, 1, j - 1) ELSE <<>>,
          IF j > 0 THEN SubSeq(email, j + 1, Len(email)) ELSE email>>

-----------------------------------------------------------------------------
(* Input data: members, roles, policies *)

UserA == <<"u", "s", "e", "r", ":", "a", "@", "x", ".", "c", "o", "m">>

GroupG == <<"g", "r", "o", "u", "p", ":", "g", "@", "y", ".", "o", "r", "g">>

RoleOwner == ROLES_PREFIX \o <<"o", "w", "n", "e", "r">>

RoleAdmin == <<"a", "d", "m", "i", "n">>

RoleNested == ROLES_PREFIX \o <<"x", "/">> \o ROLES_PREFIX \o <<"y">>

RoleEditor == ROLES_PREFIX \o <<"e", "d", "i", "t", "o", "r">>

\* one binding with the canonical prefix, one member
PolicyOwner ==
    [bindings |-> <<[role |-> RoleOwner, members |-> <<UserA>>]>>]

\* a single binding whose role lacks the prefix
PolicyAdmin ==
    [bindings |-> <<[role |-> RoleAdmin, members |-> <<UserA, GroupG>>]>>]

\* mixed bindings: dropped role, inner 'roles/', repeated member,
\* binding without role, binding without members
PolicyMixed ==
    [bindings |-> <<[role |-> RoleAdmin, members |-> <<UserA>>],
                    [role |-> RoleNested, members |-> <<GroupG, GroupG>>],
                    [members |-> <<UserA>>],
                    [role |-> RoleEditor],
                    [role |-> RoleEditor, members |-> <<GroupG, UserA>>]>>]

\* a policy without a bindings field
PolicyNoBindings == [etag |-> "BwVUqMvZQGY="]

Policies == {PolicyOwner, PolicyAdmin, PolicyMixed, PolicyNoBindings}

\* selector outputs: project numbers, unique, at most MaxSelected of them
Selections ==
    {s \in UNION {[1..n -> ProjectNumbers] : n \in 0..MaxSelected} :
        \A i, j \in 1..Len(s) : i # j => s[i] # s[j]}

\* rows an earlier cycle left in the tables
PriorFlat ==
    <<[cycle_timestamp |-> PriorCycleTimestamp,
       row |-> [project_number |-> 111,
                role |-> <<"o", "w", "n", "e", "r">>,
                member_type |-> <<"u", "s", "e", "r">>,
                member_name |-> <<"a">>,
                member_domain |-> <<"x", ".", "c", "o", "m">>]]>>

PriorRaw ==
    <<[cycle_timestamp |-> PriorCycleTimestamp,
       row |-> [project_number |-> 111,
                iam_policy |-> json_dumps(PolicyOwner)]]>>

EmptyTables ==
    [n \in {RESOURCE_NAME, RAW_RESOURCE_NAME} |-> <<>>]

PriorTables ==
    [n \in {RESOURCE_NAME, RAW_RESOURCE_NAME} |->
        IF n = RESOURCE_NAME THEN PriorFlat ELSE PriorRaw]

-----------------------------------------------------------------------------
(* _flatten *)

\* mutant: the record takes its project number from the selector's list
\* instead of from the policy record being flattened
FlattenMemberWrongProject(iam_policy_map, binding, member) ==
    LET parsed == parse_member_info(member)
        role == Get(binding, "role", <<>>)
    IN  IF startswith(role, ROLES_PREFIX)
        THEN <<[project_number |-> project_numbers[1],
                role |-> replace(role, ROLES_PREFIX, <<>>),
                member_type |-> parsed[1],
                member_name |-> parsed[2],
                member_domain |-> parsed[3]]>>
        ELSE <<>>

\* mutant: no prefix filter, a role without the prefix is stored as it is
FlattenMemberUnfiltered(iam_policy_map, binding, member) ==
    LET parsed == parse_member_info(member)
        role == Get(binding, "role", <<>>)
    IN  <<[project_number |-> iam_policy_map.project_number,
           role |-> replace(role, ROLES_PREFIX, <<>>),
           member_type |-> parsed[1],
           member_name |-> parsed[2],
           member_domain |-> parsed[3]]>>

\* lines 106-115: the record yielded for one member, or nothing
FlattenMember(iam_policy_map, binding, member) ==
    LET parsed == parse_member_info(member)
        role == Get(binding, "role", <<>>)
    IN  IF startswith(role, ROLES_PREFIX)
        THEN <<[project_number |-> iam_policy_map.project_number,
                role |-> replace(role, ROLES_PREFIX, <<>>),
                member_type |-> parsed[1],
                member_name |-> parsed[2],
                member_domain |-> parsed[3]]>>
        ELSE <<>>

\* mutant: the loop over members stops after the first member
FlattenMembersFirstOnly(iam_policy_map, binding, members) ==
    IF members = <<>> THEN <<>>
    ELSE FlattenMember(iam_policy_map, binding, Head(members))

RECURSIVE FlattenMembers(_, _, _)
\* lines 105-115: for member in members
FlattenMembers(iam_policy_map, binding, members) ==
    IF members = <<>> THEN <<>>
    ELSE FlattenMember(iam_policy_map, binding, Head(members))
         \o FlattenMembers(iam_policy_map, binding, Tail(members))

RECURSIVE FlattenBindingsStopAtMissing(_, _)
\* mutant: a binding without members ends the loop over the bindings
FlattenBindingsStopAtMissing(iam_policy_map, bindings) ==
    IF bindings = <<>> \/ "members" \notin DOMAIN Head(bindings) THEN <<>>
    ELSE FlattenMembers(iam_policy_map, Head(bindings), Head(bindings).members)
         \o FlattenBindingsStopAtMissing(iam_policy_map, Tail(bindings))

RECURSIVE FlattenBindingsReversed(_, _)
\* mutant: the bindings are gone through last to first
FlattenBindingsReversed(iam_policy_map, bindings) ==
    IF bindings = <<>> THEN <<>>
    ELSE FlattenBindingsReversed(iam_policy_map, Tail(bindings))
         \o FlattenMembers(iam_policy_map, Head(bindings),
                           Get(Head(bindings), "members", <<>>))

RECURSIVE FlattenBindings(_, _)
\* lines 103-115: for binding in bindings
FlattenBindings(iam_policy_map, bindings) ==
    IF bindings = <<>> THEN <<>>
    ELSE FlattenMembers(iam_policy_map, Head(bindings),
                        Get(Head(bindings), "members", <<>>))
         \o FlattenBindings(iam_policy_map, Tail(bindings))

RECURSIVE _flatten(_)
\* lines 100-115: everything the generator yields over iam_policy_maps
_flatten(maps) ==
    IF maps = <<>> THEN <<>>
    ELSE FlattenBindings(Head(maps),
                         Get(Head(maps).iam_policy, "bindings", <<>>))
         \o _flatten(Tail(maps))

-----------------------------------------------------------------------------
(* Collaborators *)

\* mutant: the pipeline error is raised without the underlying error
LoadDataPipelineErrorNoCause(e) ==
    [type |-> "LoadDataPipelineError", args |-> <<>>]

\* inventory_errors.LoadDataPipelineError(e)
LoadDataPipelineError(e) == [type |-> "LoadDataPipelineError", args |-> <<e>>]

\* dao.load_data(resource_name, cycle_timestamp, data) when it succeeds:
\* every row of data is appended to the table, tagged with the cycle
load_data(resource_name, timestamp, data) ==
    [tables EXCEPT ![resource_name] =
        @ \o [i \in 1..Len(data) |->
                [cycle_timestamp |-> timestamp, row |-> data[i]]]]

\* dao.select_record_count(resource_name, cycle_timestamp)
select_record_count(resource_name, timestamp) ==
    Cardinality({i \in 1..Len(tables[resource_name]) :
                    tables[resource_name][i].cycle_timestamp = timestamp})

Call(op, arg, ok, ret) == [op |-> op, arg |-> arg, ok |-> ok, ret |-> ret]

-----------------------------------------------------------------------------
(* log_util.LogUtil *)

MaxHandlers == 2

ModuleNames == {"inventory_loader", "load_projects_iam_policies_pipeline"}

LOG_FORMAT == "%(asctime)s %(name)-12s %(levelname)-8s %(message)s"

\* mutant: the cloud branch installs a cloud handler and is tested after the
\* override, so the override no longer forces the local handler
SelectHandlerCloudWins(use, nouse, gce) ==
    LET forced == "StreamHandler"
    IN  IF use \/ gce THEN "CloudLoggingHandler" ELSE forced

\* lines 59-68 of log_util.py: the class of the handler get_logger installs
SelectHandler(use, nouse, gce) ==
    LET default == "StreamHandler"
        after_cloud == IF use \/ gce THEN default ELSE default
    IN  IF nouse THEN "StreamHandler" ELSE after_cloud

\* a logger nobody has configured yet
NewLogger == [handlers |-> <<>>, level |-> "NOTSET"]

\* lines 57-80 of log_util.py: LogUtil.get_logger(module_name)
get_logger(module_name) ==
    /\ Len(loggers[module_name].handlers) < MaxHandlers
    /\ loggers' =
          [loggers EXCEPT ![module_name] =
              [handlers |-> Append(@.handlers,
                               [class |-> SelectHandler(use_cloud_logging,
                                              nouse_cloud_logging, is_gce),
                                formatter |-> LOG_FORMAT]),
               level |-> IF debug_env THEN "DEBUG" ELSE "INFO"]]
    /\ UNCHANGED <<use_cloud_logging, nouse_cloud_logging, is_gce, debug_env>>
    /\ UNCHANGED pipeline_vars

\* flags at their defaults (lines 39-41), no logger configured
LogIdle ==
    /\ use_cloud_logging = FALSE
    /\ nouse_cloud_logging = FALSE
    /\ is_gce = FALSE
    /\ debug_env = FALSE
    /\ loggers = [m \in ModuleNames |-> NewLogger]

\* a pipeline that has been constructed and not run
PipelineIdle ==
    /\ pc = "START"
    /\ cycle_timestamp = "20170102T000000Z"
    /\ project_numbers = <<>>
    /\ idx = 1
    /\ iam_policy_maps = <<>>
    /\ generator = "none"
    /\ flattened_iam_policies = <<>>
    /\ tables = EmptyTables
    /\ count = None
    /\ raised = None
    /\ calls = <<>>
    /\ logged = <<>>

\* any flags, any hosting environment, no logger configured
LogInit ==
    /\ use_cloud_logging \in BOOLEAN
    /\ nouse_cloud_logging \in BOOLEAN
    /\ is_gce \in BOOLEAN
    /\ debug_env \in BOOLEAN
    /\ loggers = [m \in ModuleNames |-> NewLogger]
    /\ PipelineIdle

GetLogger == \E module_name \in ModuleNames : get_logger(module_name)

LogNext == GetLogger

LogSpec == LogInit /\ [][LogNext]_vars

-----------------------------------------------------------------------------
(* The run *)

Init ==
    /\ pc = "START"
    /\ cycle_timestamp \in CycleTimestamps
    /\ project_numbers = <<>>
    /\ idx = 1
    /\ iam_policy_maps = <<>>
    /\ generator = "none"
    /\ flattened_iam_policies = <<>>
    /\ tables \in {EmptyTables, PriorTables}
    /\ count = None
    /\ raised = None
    /\ calls = <<>>
    /\ logged = <<>>
    /\ LogIdle

\* run() is called: line 168 enters _retrieve
Run ==
    /\ pc = "START"
    /\ pc' = "select"
    /\ UNCHANGED <<cycle_timestamp, project_numbers, idx, iam_policy_maps,
                   generator, flattened_iam_policies, tables, count, raised,
                   calls, logged>>
    /\ UNCHANGED log_vars

\* mutant: the selector's MySQLError is swallowed and the run goes on with
\* no project numbers
SelectProjectNumbersSwallowed ==
    /\ pc = "select"
    /\ \/ \E s \in Selections :
            /\ project_numbers' = s
            /\ calls' = Append(calls, Call("select_project_numbers",
                                  <<RESOURCE_NAME, cycle_timestamp>>, TRUE, <<>>))
       \/ /\ calls' = Append(calls, Call("select_project_numbers",
                                <<RESOURCE_NAME, cycle_timestamp>>, FALSE,
                            <<"MySQLError">>))
          /\ project_numbers' = <<>>
    /\ pc' = "fetch"
    /\ UNCHANGED <<cycle_timestamp, idx, iam_policy_maps, generator,
                   flattened_iam_policies, tables, count, raised, logged>>
    /\ UNCHANGED log_vars

\* lines 130-134: dao.select_project_numbers, MySQLError is fatal
SelectProjectNumbers ==
    /\ pc = "select"
    /\ \/ \E s \in Selections :
            /\ project_numbers' = s
            /\ calls' = Append(calls, Call("select_project_numbers",
                                  <<RESOURCE_NAME, cycle_timestamp>>, TRUE, <<>>))
            /\ pc' = "fetch"
            /\ UNCHANGED raised
       \/ /\ calls' = Append(calls, Call("select_project_numbers",
                                <<RESOURCE_NAME, cycle_timestamp>>, FALSE,
                            <<"MySQLError">>))
          /\ raised' = <<LoadDataPipelineError("MySQLError")>>
          /\ pc' = "FAILED"
          /\ UNCHANGED project_numbers
    /\ UNCHANGED <<cycle_timestamp, idx, iam_policy_maps, generator,
                   flattened_iam_policies, tables, count, logged>>
    /\ UNCHANGED log_vars

\* mutant: a fetch that failed is tried once more before the loop moves on
GetProjectIamPoliciesRetry ==
    /\ pc = "fetch"
    /\ idx <= Len(project_numbers)
    /\ LET project_number == project_numbers[idx]
           retried == /\ calls[Len(calls)].op = "get_project_iam_policies"
                      /\ calls[Len(calls)].arg[2] = project_number
       IN  \/ \E iam_policy \in Policies :
                /\ calls' = Append(calls, Call("get_project_iam_policies",
                              <<RESOURCE_NAME, project_number>>, TRUE,
                              <<iam_policy>>))
                /\ iam_policy_maps' = Append(iam_policy_maps,
                              [project_number |-> project_number,
                               iam_policy |-> iam_policy])
                /\ idx' = idx + 1
                /\ UNCHANGED logged
           \/ /\ calls' = Append(calls, Call("get_project_iam_policies",
                              <<RESOURCE_NAME, project_number>>, FALSE,
                              <<"ApiExecutionError">>))
              /\ logged' = Append(logged, project_number)
              /\ idx' = IF retried THEN idx + 1 ELSE idx
              /\ UNCHANGED iam_policy_maps
    /\ UNCHANGED <<pc, cycle_timestamp, project_numbers, generator,
                   flattened_iam_policies, tables, count, raised>>
    /\ UNCHANGED log_vars

\* mutant: an ApiExecutionError is not caught in the loop and ends the run
GetProjectIamPoliciesUncaught ==
    /\ pc = "fetch"
    /\ idx <= Len(project_numbers)
    /\ LET project_number == project_numbers[idx]
       IN  \/ \E iam_policy \in Policies :
                /\ calls' = Append(calls, Call("get_project_iam_policies",
                              <<RESOURCE_NAME, project_number>>, TRUE,
                              <<iam_policy>>))
                /\ iam_policy_maps' = Append(iam_policy_maps,
                              [project_number |-> project_number,
                               iam_policy |-> iam_policy])
                /\ UNCHANGED <<pc, raised>>
           \/ /\ calls' = Append(calls, Call("get_project_iam_policies",
                              <<RESOURCE_NAME, project_number>>, FALSE,
                              <<"ApiExecutionError">>))
              /\ raised' = <<[type |-> "ApiExecutionError", args |-> <<>>]>>
              /\ pc' = "FAILED"
              /\ UNCHANGED iam_policy_maps
    /\ idx' = idx + 1
    /\ UNCHANGED <<cycle_timestamp, project_numbers, generator,
                   flattened_iam_policies, tables, count, logged>>
    /\ UNCHANGED log_vars

\* lines 139-149: one iteration of the loop over project_numbers
GetProjectIamPolicies ==
    /\ pc = "fetch"
    /\ idx <= Len(project_numbers)
    /\ LET project_number == project_numbers[idx]
       IN  \/ \E iam_policy \in Policies :
                /\ calls' = Append(calls, Call("get_project_iam_policies",
                              <<RESOURCE_NAME, project_number>>, TRUE,
                              <<iam_policy>>))
                /\ iam_policy_maps' = Append(iam_policy_maps,
                              [project_number |-> project_number,
                               iam_policy |-> iam_policy])
                /\ UNCHANGED logged
           \/ /\ calls' = Append(calls, Call("get_project_iam_policies",
                              <<RESOURCE_NAME, project_number>>, FALSE,
                              <<"ApiExecutionError">>))
              /\ logged' = Append(logged, project_number)
              /\ UNCHANGED iam_policy_maps
    /\ idx' = idx + 1
    /\ UNCHANGED <<pc, cycle_timestamp, project_numbers, generator,
                   flattened_iam_policies, tables, count, raised>>
    /\ UNCHANGED log_vars

\* mutant: an empty result of the loop is treated as an error
ReturnIamPolicyMapsRaisesOnEmpty ==
    /\ pc = "fetch"
    /\ idx > Len(project_numbers)
    /\ IF iam_policy_maps = <<>>
       THEN /\ raised' = <<LoadDataPipelineError("NoPolicies")>>
            /\ pc' = "FAILED"
       ELSE /\ pc' = "flatten"
            /\ UNCHANGED raised
    /\ UNCHANGED <<cycle_timestamp, project_numbers, idx, iam_policy_maps,
                   generator, flattened_iam_policies, tables, count, calls,
                   logged>>
    /\ UNCHANGED log_vars

\* line 150 and line 168: the loop is over, _retrieve returns the list
ReturnIamPolicyMaps ==
    /\ pc = "fetch"
    /\ idx > Len(project_numbers)
    /\ pc' = "flatten"
    /\ UNCHANGED <<cycle_timestamp, project_numbers, idx, iam_policy_maps,
                   generator, flattened_iam_policies, tables, count, raised,
                   calls, logged>>
    /\ UNCHANGED log_vars

\* mutant: the payloads are serialized before the flattened write instead
\* of after it
FlattenAfterDumps ==
    /\ pc = "flatten"
    /\ generator' = "created"
    /\ iam_policy_maps' =
          [i \in 1..Len(iam_policy_maps) |->
              [iam_policy_maps[i] EXCEPT
                  !.iam_policy = json_dumps(iam_policy_maps[i].iam_policy)]]
    /\ pc' = "load_flattened"
    /\ UNCHANGED <<cycle_timestamp, project_numbers, idx,
                   flattened_iam_policies, tables, count, raised, calls,
                   logged>>
    /\ UNCHANGED log_vars

\* mutant: the records are materialized when _flatten is called, as a list
FlattenEager ==
    /\ pc = "flatten"
    /\ generator' = "exhausted"
    /\ flattened_iam_policies' = _flatten(iam_policy_maps)
    /\ pc' = "load_flattened"
    /\ UNCHANGED <<cycle_timestamp, project_numbers, idx, iam_policy_maps,
                   tables, count, raised, calls, logged>>
    /\ UNCHANGED log_vars

\* line 170: _flatten(iam_policy_maps) creates the generator; no line of its
\* body runs yet
Flatten ==
    /\ pc = "flatten"
    /\ generator' = "created"
    /\ pc' = "load_flattened"
    /\ UNCHANGED <<cycle_timestamp, project_numbers, idx, iam_policy_maps,
                   flattened_iam_policies, tables, count, raised, calls,
                   logged>>
    /\ UNCHANGED log_vars

\* mutant: the flattened write empties the table before it stores the rows
LoadFlattenedReplaces ==
    /\ pc = "load_flattened"
    /\ \/ /\ generator' = "exhausted"
          /\ flattened_iam_policies' = _flatten(iam_policy_maps)
          /\ tables' = [tables EXCEPT ![RESOURCE_NAME] =
                [i \in 1..Len(_flatten(iam_policy_maps)) |->
                    [cycle_timestamp |-> cycle_timestamp,
                     row |-> _flatten(iam_policy_maps)[i]]]]
          /\ calls' = Append(calls, Call("load_data",
                                <<RESOURCE_NAME, cycle_timestamp>>, TRUE, <<>>))
          /\ pc' = "dumps"
          /\ UNCHANGED raised
       \/ \E e \in {"CSVFileError", "MySQLError"} :
            /\ calls' = Append(calls, Call("load_data",
                                <<RESOURCE_NAME, cycle_timestamp>>, FALSE,
                                <<e>>))
            /\ raised' = <<LoadDataPipelineError(e)>>
            /\ pc' = "FAILED"
            /\ UNCHANGED <<tables, generator, flattened_iam_policies>>
    /\ UNCHANGED <<cycle_timestamp, project_numbers, idx, iam_policy_maps,
                   count, logged>>
    /\ UNCHANGED log_vars

\* mutant: a failure of the flattened write is swallowed and _load goes on
\* to the raw write
LoadFlattenedSwallowed ==
    /\ pc = "load_flattened"
    /\ \/ /\ tables' = load_data(RESOURCE_NAME, cycle_timestamp,
                                 _flatten(iam_policy_maps))
          /\ calls' = Append(calls, Call("load_data",
                                <<RESOURCE_NAME, cycle_timestamp>>, TRUE, <<>>))
       \/ \E e \in {"CSVFileError", "MySQLError"} :
            /\ calls' = Append(calls, Call("load_data",
                                <<RESOURCE_NAME, cycle_timestamp>>, FALSE,
                                <<e>>))
            /\ UNCHANGED tables
    /\ generator' = "exhausted"
    /\ flattened_iam_policies' = _flatten(iam_policy_maps)
    /\ pc' = "dumps"
    /\ UNCHANGED <<cycle_timestamp, project_numbers, idx, iam_policy_maps,
                   count, raised, logged>>
    /\ UNCHANGED log_vars

\* lines 75-76 (and 82-84): dao.load_data of the flattened records; the dao
\* iterates the generator, which runs _flatten over iam_policy_maps as they
\* are at that moment. A payload that is text by then has no get(): the
\* generator raises AttributeError, which the except clause does not catch.
LoadFlattened ==
    /\ pc = "load_flattened"
    /\ IF \E i \in 1..Len(iam_policy_maps) : IsText(iam_policy_maps[i].iam_policy)
       THEN /\ generator' = "exhausted"
            /\ flattened_iam_policies' = _flatten(BeforeText(iam_policy_maps))
            /\ calls' = Append(calls, Call("load_data",
                                <<RESOURCE_NAME, cycle_timestamp>>, FALSE,
                                <<"AttributeError">>))
            /\ raised' = <<[type |-> "AttributeError", args |-> <<>>]>>
            /\ pc' = "FAILED"
            /\ UNCHANGED tables
       ELSE \/ /\ generator' = "exhausted"
               /\ flattened_iam_policies' = _flatten(iam_policy_maps)
               /\ tables' = load_data(RESOURCE_NAME, cycle_timestamp,
                                      _flatten(iam_policy_maps))
               /\ calls' = Append(calls, Call("load_data",
                                <<RESOURCE_NAME, cycle_timestamp>>, TRUE, <<>>))
               /\ pc' = "dumps"
               /\ UNCHANGED raised
            \/ \E e \in {"CSVFileError", "MySQLError"} :
               \E consumed \in BOOLEAN :
                 /\ generator' = IF consumed THEN "exhausted" ELSE generator
                 /\ flattened_iam_policies' =
                       IF consumed THEN _flatten(iam_policy_maps) ELSE <<>>
                 /\ calls' = Append(calls, Call("load_data",
                                <<RESOURCE_NAME, cycle_timestamp>>, FALSE,
                                <<e>>))
                 /\ raised' = <<LoadDataPipelineError(e)>>
                 /\ pc' = "FAILED"
                 /\ UNCHANGED tables
    /\ UNCHANGED <<cycle_timestamp, project_numbers, idx, iam_policy_maps,
                   count, logged>>
    /\ UNCHANGED log_vars

\* lines 78-79: each payload is replaced in place by its serialized text
Dumps ==
    /\ pc = "dumps"
    /\ iam_policy_maps' =
          [i \in 1..Len(iam_policy_maps) |->
              [iam_policy_maps[i] EXCEPT
                  !.iam_policy = json_dumps(iam_policy_maps[i].iam_policy)]]
    /\ pc' = "load_raw"
    /\ UNCHANGED <<cycle_timestamp, project_numbers, idx, generator,
                   flattened_iam_policies, tables, count, raised, calls,
                   logged>>
    /\ UNCHANGED log_vars

\* mutant: the raw write is tagged with a timestamp other than the run's
LoadRawOtherTimestamp ==
    /\ pc = "load_raw"
    /\ LET other == CHOOSE t \in CycleTimestamps : t # cycle_timestamp
       IN  \/ /\ tables' = load_data(RAW_RESOURCE_NAME, other,
                                     iam_policy_maps)
              /\ calls' = Append(calls, Call("load_data",
                            <<RAW_RESOURCE_NAME, other>>, TRUE, <<>>))
              /\ pc' = "count"
              /\ UNCHANGED raised
           \/ \E e \in {"CSVFileError", "MySQLError"} :
                /\ calls' = Append(calls, Call("load_data",
                            <<RAW_RESOURCE_NAME, other>>, FALSE, <<e>>))
                /\ raised' = <<LoadDataPipelineError(e)>>
                /\ pc' = "FAILED"
                /\ UNCHANGED tables
    /\ UNCHANGED <<cycle_timestamp, project_numbers, idx, iam_policy_maps,
                   generator, flattened_iam_policies, count, logged>>
    /\ UNCHANGED log_vars

\* mutant: the raw write leaves out the first policy record
LoadRawSkipsFirst ==
    /\ pc = "load_raw"
    /\ \/ /\ tables' = load_data(RAW_RESOURCE_NAME, cycle_timestamp,
                                 IF iam_policy_maps = <<>> THEN <<>>
                                 ELSE Tail(iam_policy_maps))
          /\ calls' = Append(calls, Call("load_data",
                            <<RAW_RESOURCE_NAME, cycle_timestamp>>, TRUE, <<>>))
          /\ pc' = "count"
          /\ UNCHANGED raised
       \/ \E e \in {"CSVFileError", "MySQLError"} :
            /\ calls' = Append(calls, Call("load_data",
                            <<RAW_RESOURCE_NAME, cycle_timestamp>>, FALSE,
                            <<e>>))
            /\ raised' = <<LoadDataPipelineError(e)>>
            /\ pc' = "FAILED"
            /\ UNCHANGED tables
    /\ UNCHANGED <<cycle_timestamp, project_numbers, idx, iam_policy_maps,
                   generator, flattened_iam_policies, count, logged>>
    /\ UNCHANGED log_vars

\* mutant: a failure of the raw write is swallowed and the run goes on
LoadRawSwallowed ==
    /\ pc = "load_raw"
    /\ \/ /\ tables' = load_data(RAW_RESOURCE_NAME, cycle_timestamp,
                                 iam_policy_maps)
          /\ calls' = Append(calls, Call("load_data",
                            <<RAW_RESOURCE_NAME, cycle_timestamp>>, TRUE, <<>>))
       \/ /\ calls' = Append(calls, Call("load_data",
                            <<RAW_RESOURCE_NAME, cycle_timestamp>>, FALSE,
                            <<"MySQLError">>))
          /\ UNCHANGED tables
    /\ pc' = "count"
    /\ UNCHANGED <<cycle_timestamp, project_numbers, idx, iam_policy_maps,
                   generator, flattened_iam_policies, count, raised, logged>>
    /\ UNCHANGED log_vars

\* lines 80-84: dao.load_data of the raw records
LoadRaw ==
    /\ pc = "load_raw"
    /\ \/ /\ tables' = load_data(RAW_RESOURCE_NAME, cycle_timestamp,
                                 iam_policy_maps)
          /\ calls' = Append(calls, Call("load_data",
                            <<RAW_RESOURCE_NAME, cycle_timestamp>>, TRUE, <<>>))
          /\ pc' = "count"
          /\ UNCHANGED raised
       \/ \E e \in {"CSVFileError", "MySQLError"} :
            /\ calls' = Append(calls, Call("load_data",
                            <<RAW_RESOURCE_NAME, cycle_timestamp>>, FALSE,
                            <<e>>))
            /\ raised' = <<LoadDataPipelineError(e)>>
            /\ pc' = "FAILED"
            /\ UNCHANGED tables
    /\ UNCHANGED <<cycle_timestamp, project_numbers, idx, iam_policy_maps,
                   generator, flattened_iam_policies, count, logged>>
    /\ UNCHANGED log_vars

\* line 174: _get_loaded_count; a failing count query is a fatal storage error
GetLoadedCount ==
    /\ pc = "count"
    /\ \/ /\ count' = <<select_record_count(RESOURCE_NAME, cycle_timestamp)>>
          /\ calls' = Append(calls, Call("select_record_count",
                            <<RESOURCE_NAME, cycle_timestamp>>, TRUE, <<>>))
          /\ pc' = "COMPLETE"
          /\ UNCHANGED raised
       \/ /\ calls' = Append(calls, Call("select_record_count",
                            <<RESOURCE_NAME, cycle_timestamp>>, FALSE,
                            <<"MySQLError">>))
          /\ raised' = <<LoadDataPipelineError("MySQLError")>>
          /\ pc' = "FAILED"
          /\ UNCHANGED count
    /\ UNCHANGED <<cycle_timestamp, project_numbers, idx, iam_policy_maps,
                   generator, flattened_iam_policies, tables, logged>>
    /\ UNCHANGED log_vars

Next ==
    \/ Run
    \/ SelectProjectNumbers
    \/ GetProjectIamPolicies
    \/ ReturnIamPolicyMaps
    \/ Flatten
    \/ LoadFlattened
    \/ Dumps
    \/ LoadRaw
    \/ GetLoadedCount

Spec == Init /\ [][Next]_vars

-----------------------------------------------------------------------------
(* Definitions used to state the properties *)

\* the rows of a table that carry this run's cycle timestamp, untagged
RowsOf(resource_name) ==
    LET ThisCycle(r) == r.cycle_timestamp = cycle_timestamp
        mine == SelectSeq(tables[resource_name], ThisCycle)
    IN  [i \in 1..Len(mine) |-> mine[i].row]

\* the calls of one operation, in order
CallsOf(op) ==
    LET IsOp(c) == c.op = op
    IN  SelectSeq(calls, IsOp)

\* what the policy source answered: the (project number, policy) pairs of
\* the fetches that succeeded, in call order, as the source returned them
Fetched ==
    LET Ok(c) == c.op = "get_project_iam_policies" /\ c.ok
        ok == SelectSeq(calls, Ok)
    IN  [i \in 1..Len(ok) |-> [project_number |-> ok[i].arg[2],
                               iam_policy |-> ok[i].ret[1]]]

\* the project numbers whose fetch failed
FailedFetches ==
    {c.arg[2] : c \in {calls[i] : i \in {j \in 1..Len(calls) :
        calls[j].op = "get_project_iam_policies" /\ ~calls[j].ok}}}

Range(s) == {s[i] : i \in 1..Len(s)}

LastCall == calls[Len(calls)]

\* the run is past _retrieve
Retrieved == generator # "none"

-----------------------------------------------------------------------------
(* C1 *)

\* C1: fetches that fail with an ApiExecutionError never abort the run:
\* the run never fails on a fetch, every selected id is still fetched, the
\* failing ids are just absent from the retrieved list, and every id whose
\* fetch succeeded has its flattened rows written by the flattened write and
\* its raw row written by the raw write.
C1_FetchErrorsAreIsolated ==
    /\ pc = "FAILED" => LastCall.op # "get_project_iam_policies"
    /\ Retrieved =>
          /\ Len(CallsOf("get_project_iam_policies")) = Len(project_numbers)
          /\ [i \in 1..Len(iam_policy_maps) |->
                 iam_policy_maps[i].project_number]
             = [i \in 1..Len(Fetched) |-> Fetched[i].project_number]
          /\ \A p \in FailedFetches :
                \A i \in 1..Len(iam_policy_maps) :
                    iam_policy_maps[i].project_number # p
    /\ pc \in {"dumps", "load_raw", "count", "COMPLETE"} =>
          \A i \in 1..Len(Fetched) :
              Range(_flatten(<<Fetched[i]>>)) \subseteq Range(RowsOf(RESOURCE_NAME))
    /\ pc \in {"count", "COMPLETE"} =>
          \A i \in 1..Len(Fetched) :
              [project_number |-> Fetched[i].project_number,
               iam_policy |-> json_dumps(Fetched[i].iam_policy)]
                 \in Range(RowsOf(RAW_RESOURCE_NAME))

\* Scenario A: selector -> [111, 222], fetch(111) -> one owner binding,
\* fetch(222) fails; one raw row, one flattened row, count 1, no error
C1_Witness ==
    /\ pc = "COMPLETE"
    /\ project_numbers = <<111, 222>>
    /\ FailedFetches = {222}
    /\ RowsOf(RAW_RESOURCE_NAME) =
          <<[project_number |-> 111, iam_policy |-> json_dumps(PolicyOwner)]>>
    /\ RowsOf(RESOURCE_NAME) =
          <<[project_number |-> 111,
             role |-> <<"o", "w", "n", "e", "r">>,
             member_type |-> <<"u", "s", "e", "r">>,
             member_name |-> <<"a">>,
             member_domain |-> <<"x", ".", "c", "o", "m">>]>>
    /\ count = <<1>>
    /\ raised = None

-----------------------------------------------------------------------------
(* C2 *)

\* C2: when select_project_numbers fails, run() has failed with a
\* LoadDataPipelineError wrapping the MySQLError, and the select is the only
\* call ever made: no fetch, no write to either table, no count query.
C2_SelectionErrorAborts ==
    (\E i \in 1..Len(calls) :
        calls[i].op = "select_project_numbers" /\ ~calls[i].ok)
    => /\ pc = "FAILED"
       /\ raised = <<LoadDataPipelineError("MySQLError")>>
       /\ Len(calls) = 1
       /\ iam_policy_maps = <<>>
       /\ RowsOf(RESOURCE_NAME) = <<>>
       /\ RowsOf(RAW_RESOURCE_NAME) = <<>>
       /\ count = None

C2_Witness ==
    /\ pc = "FAILED"
    /\ calls # <<>>
    /\ calls[1].op = "select_project_numbers"
    /\ ~calls[1].ok
    /\ raised # None

-----------------------------------------------------------------------------
(* C3 *)

\* some call whose failure is fatal (anything but a fetch) has failed
FatalCallFailed ==
    \E i \in 1..Len(calls) :
        calls[i].op # "get_project_iam_policies" /\ ~calls[i].ok

\* the run ended in exactly one of the two outcomes
C3_Outcome ==
    /\ pc = "COMPLETE" => count # None /\ raised = None /\ ~FatalCallFailed
    /\ pc = "FAILED" =>
          /\ Len(raised) = 1
          /\ raised[1].type = "LoadDataPipelineError"
          /\ count = None
          /\ FatalCallFailed
    /\ pc \notin {"COMPLETE", "FAILED"} =>
          count = None /\ raised = None /\ ~FatalCallFailed

\* C3 as stated: a run completes with a count, or fails with one wrapped
\* error and zero rows under its cycle timestamp in both tables.
C3_Original ==
    /\ C3_Outcome
    /\ pc = "FAILED" =>
          /\ RowsOf(RESOURCE_NAME) = <<>>
          /\ RowsOf(RAW_RESOURCE_NAME) = <<>>

\* C3 amended: a run completes with a count, or fails with one wrapped
\* error; a failed run has written nothing when the selector or the
\* flattened write failed, has written the flattened rows but no raw row
\* when the raw write failed, and has written both when the count failed.
C3_Amended ==
    /\ C3_Outcome
    /\ pc = "FAILED" =>
          /\ (\/ LastCall.op = "select_project_numbers"
              \/ LastCall.op = "load_data" /\ LastCall.arg[1] = RESOURCE_NAME)
             => /\ RowsOf(RESOURCE_NAME) = <<>>
                /\ RowsOf(RAW_RESOURCE_NAME) = <<>>
          /\ (LastCall.op = "load_data" /\ LastCall.arg[1] = RAW_RESOURCE_NAME)
             => /\ RowsOf(RESOURCE_NAME) = _flatten(Fetched)
                /\ RowsOf(RAW_RESOURCE_NAME) = <<>>
          /\ LastCall.op = "select_record_count"
             => /\ RowsOf(RESOURCE_NAME) = _flatten(Fetched)
                /\ Len(RowsOf(RAW_RESOURCE_NAME)) = Len(Fetched)

\* the raw write fails after the flattened write has stored rows
C3_Witness ==
    /\ pc = "FAILED"
    /\ LastCall.op = "load_data"
    /\ LastCall.arg[1] = RAW_RESOURCE_NAME
    /\ RowsOf(RESOURCE_NAME) # <<>>
    /\ RowsOf(RAW_RESOURCE_NAME) = <<>>

-----------------------------------------------------------------------------
(* C4 *)

\* the project numbers of a sequence of records
ProjectNumbersOf(rows) == {rows[i].project_number : i \in 1..Len(rows)}

\* C4 as stated: in every state, every flattened row under the run's cycle
\* timestamp has a project number with a raw row under the same timestamp.
C4_Original ==
    ProjectNumbersOf(RowsOf(RESOURCE_NAME))
        \subseteq ProjectNumbersOf(RowsOf(RAW_RESOURCE_NAME))

\* C4 amended: in every state, every flattened row under the run's cycle
\* timestamp, and every record the generator yielded, has the project number
\* of a retrieved policy record; the raw row of that project number exists
\* only once the raw write, which comes after the flattened write, succeeded.
C4_Amended ==
    /\ ProjectNumbersOf(RowsOf(RESOURCE_NAME)) \subseteq ProjectNumbersOf(Fetched)
    /\ ProjectNumbersOf(flattened_iam_policies) \subseteq ProjectNumbersOf(Fetched)
    /\ ProjectNumbersOf(Fetched) \subseteq Range(project_numbers)
    /\ pc \in {"count", "COMPLETE"} => C4_Original
    /\ pc \in {"dumps", "load_raw"} => RowsOf(RAW_RESOURCE_NAME) = <<>>

\* between the two writes: flattened rows stored, no raw row yet, and a
\* selected project whose fetch failed
C4_Witness ==
    /\ pc = "load_raw"
    /\ RowsOf(RESOURCE_NAME) # <<>>
    /\ RowsOf(RAW_RESOURCE_NAME) = <<>>
    /\ FailedFetches # {}

-----------------------------------------------------------------------------
(* C5 *)

\* C5: a failed load_data call is the last call of the run (no retry, no
\* later write, no count query), the run has failed with a
\* LoadDataPipelineError wrapping the error the write raised, and no table
\* was written to more than once.
C5_WriteFailureIsFatal ==
    /\ \A i \in 1..Len(calls) :
          (calls[i].op = "load_data" /\ ~calls[i].ok)
          => /\ i = Len(calls)
             /\ pc = "FAILED"
             /\ calls[i].ret[1] \in {"CSVFileError", "MySQLError"}
             /\ raised = <<[type |-> "LoadDataPipelineError",
                            args |-> calls[i].ret]>>
             /\ count = None
             /\ CallsOf("select_record_count") = <<>>
    /\ \A i, j \in 1..Len(calls) :
          (calls[i].op = "load_data" /\ calls[j].op = "load_data"
           /\ calls[i].arg = calls[j].arg) => i = j

\* the flattened write fails with records to write
C5_Witness ==
    /\ pc = "FAILED"
    /\ LastCall.op = "load_data"
    /\ LastCall.arg[1] = RESOURCE_NAME
    /\ ~LastCall.ok
    /\ _flatten(iam_policy_maps) # <<>>

-----------------------------------------------------------------------------
(* C6 *)

\* the stage of run() in which the last call was made
FailingStage ==
    CASE LastCall.op = "select_project_numbers" -> "_retrieve"
      [] LastCall.op = "get_project_iam_policies" -> "_retrieve"
      [] LastCall.op = "load_data" -> "_load"
      [] LastCall.op = "select_record_count" -> "_get_loaded_count"

-----------------------------------------------------------------------------
(* C7 *)

RECURSIVE SumSeq(_)
SumSeq(s) == IF s = <<>> THEN 0 ELSE Head(s) + SumSeq(Tail(s))

\* the bindings of a policy, the members of a binding, as _flatten reads them
BindingsOf(iam_policy) == Get(iam_policy, "bindings", <<>>)

MembersOf(binding) == Get(binding, "members", <<>>)

HasPrefix(binding) == startswith(Get(binding, "role", <<>>), ROLES_PREFIX)

\* the number of (binding, member) pairs of a policy whose binding's role
\* has the prefix
MemberCount(iam_policy) ==
    SumSeq([b \in 1..Len(BindingsOf(iam_policy)) |->
               IF HasPrefix(BindingsOf(iam_policy)[b])
               THEN Len(MembersOf(BindingsOf(iam_policy)[b]))
               ELSE 0])

MemberCountSum(maps) ==
    SumSeq([i \in 1..Len(maps) |-> MemberCount(maps[i].iam_policy)])

\* C7: after a completed run the raw table holds, under the run's cycle
\* timestamp, one row per selected project number whose fetch succeeded and
\* no other row, and the flattened table holds as many rows as those
\* policies have (binding, member) pairs under prefixed roles.
C7_RowCounts ==
    pc = "COMPLETE" =>
        /\ Len(RowsOf(RAW_RESOURCE_NAME))
           = Len(project_numbers) - Cardinality(FailedFetches)
        /\ ProjectNumbersOf(RowsOf(RAW_RESOURCE_NAME))
           = Range(project_numbers) \ FailedFetches
        /\ Len(RowsOf(RESOURCE_NAME)) = MemberCountSum(Fetched)

\* two projects fetched, one with four pairs under prefixed roles and one
\* with none
C7_Witness ==
    /\ pc = "COMPLETE"
    /\ Len(RowsOf(RAW_RESOURCE_NAME)) = 2
    /\ Len(RowsOf(RESOURCE_NAME)) = 4
    /\ \E i \in 1..Len(Fetched) : Fetched[i].iam_policy = PolicyAdmin

-----------------------------------------------------------------------------
(* C8 *)

\* the (record, binding, member) positions whose binding's role has the prefix
PrefixedPairs(maps) ==
    UNION {UNION {{<<i, b, m>> :
                      m \in 1..Len(MembersOf(BindingsOf(maps[i].iam_policy)[b]))} :
                  b \in {c \in 1..Len(BindingsOf(maps[i].iam_policy)) :
                            HasPrefix(BindingsOf(maps[i].iam_policy)[c])}} :
           i \in 1..Len(maps)}

\* lexicographic order on positions
Before(t, u) ==
    \/ t[1] < u[1]
    \/ t[1] = u[1] /\ t[2] < u[2]
    \/ t[1] = u[1] /\ t[2] = u[2] /\ t[3] < u[3]

\* the place of position t among the positions of maps
Rank(t, maps) == Cardinality({u \in PrefixedPairs(maps) : Before(u, t)}) + 1

\* C8: what the generator yielded over the retrieved policy records has
\* exactly one record per (binding, member) pair under a prefixed role, as
\* many as the member counts of those bindings sum to, and the record of a
\* pair carries the project number of the pair's policy record.
C8_OneRecordPerPair ==
    generator = "exhausted" =>
        /\ Len(flattened_iam_policies) = Cardinality(PrefixedPairs(Fetched))
        /\ Len(flattened_iam_policies) = MemberCountSum(Fetched)
        /\ \A t \in PrefixedPairs(Fetched) :
              flattened_iam_policies[Rank(t, Fetched)].project_number
                  = Fetched[t[1]].project_number

\* two policy records flattened, several records from each
C8_Witness ==
    /\ generator = "exhausted"
    /\ Len(Fetched) = 2
    /\ Len(flattened_iam_policies) = 5
    /\ Cardinality(ProjectNumbersOf(flattened_iam_policies)) = 2

-----------------------------------------------------------------------------
(* C9 *)

\* maps without the bindings whose role lacks the prefix
StripUnprefixed(maps) ==
    [i \in 1..Len(maps) |->
        IF "bindings" \in DOMAIN maps[i].iam_policy
        THEN [maps[i] EXCEPT !.iam_policy.bindings = SelectSeq(@, HasPrefix)]
        ELSE maps[i]]

\* C9: a binding whose role does not start with 'roles/' yields no record
\* for any of its members, so the generator yields just what it would yield
\* without those bindings; the raw row of a policy with such a binding is
\* still written by the raw write, binding included.
C9_UnprefixedBindingsDropped ==
    /\ generator = "exhausted" =>
          /\ \A i \in 1..Len(Fetched) :
                \A b \in 1..Len(BindingsOf(Fetched[i].iam_policy)) :
                    LET binding == BindingsOf(Fetched[i].iam_policy)[b]
                    IN  ~HasPrefix(binding) =>
                            FlattenMembers(Fetched[i], binding,
                                           MembersOf(binding)) = <<>>
          /\ flattened_iam_policies = _flatten(StripUnprefixed(Fetched))
    /\ pc \in {"count", "COMPLETE"} =>
          /\ RowsOf(RESOURCE_NAME) = _flatten(StripUnprefixed(Fetched))
          /\ \A i \in 1..Len(Fetched) :
                (\E b \in 1..Len(BindingsOf(Fetched[i].iam_policy)) :
                    ~HasPrefix(BindingsOf(Fetched[i].iam_policy)[b]))
                => [project_number |-> Fetched[i].project_number,
                    iam_policy |-> json_dumps(Fetched[i].iam_policy)]
                       \in Range(RowsOf(RAW_RESOURCE_NAME))

\* Scenario C: the one policy fetched has a single binding with role
\* "admin"; one raw row, no flattened row
C9_Witness ==
    /\ pc = "COMPLETE"
    /\ Fetched = <<[project_number |-> 111, iam_policy |-> PolicyAdmin]>>
    /\ RowsOf(RAW_RESOURCE_NAME) =
          <<[project_number |-> 111, iam_policy |-> json_dumps(PolicyAdmin)]>>
    /\ RowsOf(RESOURCE_NAME) = <<>>

-----------------------------------------------------------------------------
(* C10 *)

\* the role of the binding at position t
RoleAt(t, maps) == BindingsOf(maps[t[1]].iam_policy)[t[2]].role

\* C10: the role of every record the generator yielded is the role of its
\* binding without its leading 'roles/', the rest of the role unchanged.
C10_PrefixStrippedOnce ==
    generator = "exhausted" =>
        \A t \in PrefixedPairs(Fetched) :
            flattened_iam_policies[Rank(t, Fetched)].role
                = SubSeq(RoleAt(t, Fetched), Len(ROLES_PREFIX) + 1,
                         Len(RoleAt(t, Fetched)))

-----------------------------------------------------------------------------
(* C17 *)

\* C17: whenever the nouse_cloud_logging flag is set, every handler
\* get_logger has installed is the local stream handler, whatever the
\* use_cloud_logging flag and the hosting environment are.
C17_OverrideForcesLocal ==
    nouse_cloud_logging =>
        \A m \in ModuleNames :
            \A i \in 1..Len(loggers[m].handlers) :
                loggers[m].handlers[i].class = "StreamHandler"

\* the override is set together with the cloud flag on Compute Engine, and
\* get_logger has run
C17_Witness ==
    /\ nouse_cloud_logging
    /\ use_cloud_logging
    /\ is_gce
    /\ \E m \in ModuleNames : loggers[m].handlers # <<>>

-----------------------------------------------------------------------------
(* C11 *)

\* the member string at position t
MemberAt(t, maps) == MembersOf(BindingsOf(maps[t[1]].iam_policy)[t[2]])[t[3]]

\* the record line 111 builds for position t
RecordAt(t, maps) ==
    [project_number |-> maps[t[1]].project_number,
     role |-> replace(RoleAt(t, maps), ROLES_PREFIX, <<>>),
     member_type |-> parse_member_info(MemberAt(t, maps))[1],
     member_name |-> parse_member_info(MemberAt(t, maps))[2],
     member_domain |-> parse_member_info(MemberAt(t, maps))[3]]

\* C11: the generator yields the records in the order of the policy
\* records as retrieved, then of the bindings in the policy, then of the
\* members in the binding: the record of each (record, binding, member)
\* position stands at the place of that position in this order, and there is
\* one record per position, repeated members included.
C11_OrderKept ==
    generator = "exhausted" =>
        /\ Len(flattened_iam_policies) = Cardinality(PrefixedPairs(Fetched))
        /\ \A t \in PrefixedPairs(Fetched) :
              flattened_iam_policies[Rank(t, Fetched)] = RecordAt(t, Fetched)

\* the policy with a repeated member was retrieved first, under the larger
\* project number, and the repeated member gave two equal records
C11_Witness ==
    /\ generator = "exhausted"
    /\ Len(Fetched) = 2
    /\ Fetched[1].iam_policy = PolicyMixed
    /\ Fetched[2].iam_policy = PolicyOwner
    /\ Fetched[1].project_number > Fetched[2].project_number
    /\ Len(flattened_iam_policies) = 5
    /\ flattened_iam_policies[1] = flattened_iam_policies[2]
    /\ flattened_iam_policies[5].project_number = Fetched[2].project_number

-----------------------------------------------------------------------------
(* C12 *)

\* the controller state of section 4.1 that a position of run() belongs to
ControllerState ==
    CASE pc = "START" -> "START"
      [] pc \in {"select", "fetch"} -> "RETRIEVING"
      [] pc = "flatten" -> "FLATTENING"
      [] pc \in {"load_flattened", "dumps", "load_raw", "count"} -> "LOADING"
      [] pc = "COMPLETE" -> "COMPLETE"
      [] pc = "FAILED" -> "FAILED"

\* every step keeps the controller state or follows an edge of the state
\* machine; FAILED is left by no step and entered only on a failed call
C12_Edges ==
    /\ ControllerState' # ControllerState =>
          <<ControllerState, ControllerState'>> \in
              {<<"START", "RETRIEVING">>, <<"RETRIEVING", "FLATTENING">>,
               <<"FLATTENING", "LOADING">>, <<"LOADING", "COMPLETE">>,
               <<"RETRIEVING", "FAILED">>, <<"LOADING", "FAILED">>}
    /\ (ControllerState = "RETRIEVING" /\ ControllerState' = "FAILED") =>
          /\ LastCall'.op = "select_project_numbers"
          /\ ~LastCall'.ok
    /\ ControllerState = "FLATTENING" => raised' = raised

\* C12 as stated: the edges of the state machine, FAILED entered from
\* LOADING only on a write failure, and no record is produced by _flatten
\* (no traversal, no member parsing) outside FLATTENING.
C12_Original ==
    [][/\ C12_Edges
       /\ (ControllerState = "LOADING" /\ ControllerState' = "FAILED") =>
             (LastCall'.op = "load_data" /\ ~LastCall'.ok)
       /\ flattened_iam_policies' # flattened_iam_policies =>
             ControllerState = "FLATTENING"]_vars

\* C12 amended: the edges of the state machine, FAILED entered from LOADING
\* only on a failed write or count query; in FLATTENING only the generator
\* is created, and all traversal and member parsing of _flatten happens in
\* LOADING, inside the flattened write that consumes the generator.
C12_Amended ==
    [][/\ C12_Edges
       /\ (ControllerState = "LOADING" /\ ControllerState' = "FAILED") =>
             /\ LastCall'.op \in {"load_data", "select_record_count"}
             /\ ~LastCall'.ok
       /\ ControllerState = "FLATTENING" =>
             /\ flattened_iam_policies' = flattened_iam_policies
             /\ generator' # "exhausted"
       /\ (generator' = "exhausted" /\ generator # "exhausted") =>
             /\ pc = "load_flattened"
             /\ LastCall'.op = "load_data"
             /\ flattened_iam_policies' = _flatten(iam_policy_maps)]_vars

\* the flattened write has consumed the generator and records were yielded
C12_Witness ==
    /\ ControllerState = "LOADING"
    /\ pc = "dumps"
    /\ generator = "exhausted"
    /\ flattened_iam_policies # <<>>

-----------------------------------------------------------------------------
(* C13 *)

TableNames == {RESOURCE_NAME, RAW_RESOURCE_NAME}

\* the rows of all tables
AllRows == UNION {Range(tables[n]) : n \in TableNames}

\* every storage call so far was made with the run's cycle timestamp, and
\* every row that is not an earlier cycle's row carries it
C13_TagUsed ==
    /\ \A i \in 1..Len(calls) :
          calls[i].op \in {"select_project_numbers", "load_data",
                           "select_record_count"}
          => calls[i].arg[2] = cycle_timestamp
    /\ \A r \in AllRows :
          r.cycle_timestamp # cycle_timestamp
          => r \in Range(PriorFlat) \cup Range(PriorRaw)

\* C13: the cycle timestamp given at construction never changes, and the
\* selector query, the flattened write and the raw write are all made with
\* it; every row the run has written carries it.
C13_OneCycleTag ==
    [][cycle_timestamp' = cycle_timestamp /\ C13_TagUsed']_vars

\* a completed run that wrote to both tables beside an earlier cycle's rows
C13_Witness ==
    /\ pc = "COMPLETE"
    /\ RowsOf(RESOURCE_NAME) # <<>>
    /\ RowsOf(RAW_RESOURCE_NAME) # <<>>
    /\ tables[RESOURCE_NAME][1].cycle_timestamp = PriorCycleTimestamp
    /\ tables[RAW_RESOURCE_NAME][1].cycle_timestamp = PriorCycleTimestamp

-----------------------------------------------------------------------------
(* C14 *)

\* C14: a count query is the call right after the successful raw write,
\* which follows the successful flattened write; it is made at most once,
\* once in a completed run, on the flattened table with the run's cycle
\* timestamp, and the count reported is the number of flattened rows the
\* run wrote.
C14_CountAfterBothWrites ==
    /\ \A i \in 1..Len(calls) :
          calls[i].op = "select_record_count"
          => /\ i >= 3
             /\ calls[i].arg = <<RESOURCE_NAME, cycle_timestamp>>
             /\ calls[i - 1].op = "load_data"
             /\ calls[i - 1].arg[1] = RAW_RESOURCE_NAME
             /\ calls[i - 1].ok
             /\ calls[i - 2].op = "load_data"
             /\ calls[i - 2].arg[1] = RESOURCE_NAME
             /\ calls[i - 2].ok
    /\ Len(CallsOf("select_record_count")) <= 1
    /\ pc = "COMPLETE" =>
          /\ Len(CallsOf("select_record_count")) = 1
          /\ count = <<Len(flattened_iam_policies)>>
          /\ count = <<Len(RowsOf(RESOURCE_NAME))>>
    /\ count # None => pc = "COMPLETE"

\* four rows written beside an earlier cycle's row: the count is four
C14_Witness ==
    /\ pc = "COMPLETE"
    /\ count = <<4>>
    /\ Len(tables[RESOURCE_NAME]) = 5
    /\ Len(flattened_iam_policies) = 4

-----------------------------------------------------------------------------
(* C15 *)

\* _retrieve has returned and retrieved nothing
RetrievedNothing ==
    /\ pc \notin {"START", "select", "fetch"}
    /\ calls[1].ok
    /\ Fetched = <<>>

\* C15: when nothing was retrieved (no id selected, or every fetch failed),
\* _retrieve has returned an empty list without raising and the run goes
\* on: it fails only if a write or the count query fails, makes both writes
\* with nothing to write, and completes with no row and a count of zero.
C15_EmptyIsNoError ==
    RetrievedNothing =>
        /\ iam_policy_maps = <<>>
        /\ RowsOf(RESOURCE_NAME) = <<>>
        /\ RowsOf(RAW_RESOURCE_NAME) = <<>>
        /\ pc = "FAILED" =>
              /\ LastCall.op \in {"load_data", "select_record_count"}
              /\ ~LastCall.ok
        /\ pc \notin {"FAILED", "COMPLETE"} => raised = None /\ ENABLED Next
        /\ pc = "COMPLETE" =>
              /\ Len(CallsOf("load_data")) = 2
              /\ count = <<0>>
              /\ raised = None

\* two ids selected, both fetches failed, the run completed
C15_Witness ==
    /\ pc = "COMPLETE"
    /\ Len(project_numbers) = 2
    /\ Cardinality(FailedFetches) = 2
    /\ count = <<0>>

-----------------------------------------------------------------------------
(* C16 *)

\* C16: a step of the run only appends to the tables: the rows a table held
\* stay where they are, unchanged, and the rows added carry the run's cycle
\* timestamp.
C16_AppendOnly ==
    [][\A n \in TableNames :
          /\ Len(tables'[n]) >= Len(tables[n])
          /\ SubSeq(tables'[n], 1, Len(tables[n])) = tables[n]
          /\ \A i \in (Len(tables[n]) + 1)..Len(tables'[n]) :
                tables'[n][i].cycle_timestamp = cycle_timestamp]_vars

\* a failed run and an earlier cycle's rows: the flattened table holds the
\* old row followed by the rows of the run
C16_Witness ==
    /\ pc = "FAILED"
    /\ Len(tables[RESOURCE_NAME]) > 1
    /\ tables[RESOURCE_NAME][1] = PriorFlat[1]
    /\ tables[RAW_RESOURCE_NAME] = PriorRaw

-----------------------------------------------------------------------------
(* C18 *)

\* the place of a call in the order of run(): selector, fetches, flattened
\* write, raw write, count
CallPhase(c) ==
    CASE c.op = "select_project_numbers" -> 1
      [] c.op = "get_project_iam_policies" -> 2
      [] c.op = "load_data" -> IF c.arg[1] = RESOURCE_NAME THEN 3 ELSE 4
      [] c.op = "select_record_count" -> 5

\* the load_data calls made for one table
LoadCallsOf(resource_name) ==
    LET IsLoad(c) == c.op = "load_data" /\ c.arg[1] = resource_name
    IN  SelectSeq(calls, IsLoad)

\* C18: the selector is called once, as the first call; the fetches made so
\* far are one per selected id, for the ids in selector order, whether they
\* passed or failed, and all of them once _retrieve is over; each table gets
\* at most one write; every call starts after the call before it is over,
\* in the order selector, fetches, flattened write, raw write, count.
C18_NoRetryNoOverlap ==
    LET fetches == CallsOf("get_project_iam_policies")
    IN  /\ Len(CallsOf("select_project_numbers")) <= 1
        /\ pc \notin {"START", "select"} =>
              /\ Len(CallsOf("select_project_numbers")) = 1
              /\ calls[1].op = "select_project_numbers"
        /\ Len(fetches) <= Len(project_numbers)
        /\ \A i \in 1..Len(fetches) : fetches[i].arg[2] = project_numbers[i]
        /\ pc = "fetch" => idx = Len(fetches) + 1
        /\ pc \notin {"START", "select", "fetch"} /\ calls[1].ok =>
              Len(fetches) = Len(project_numbers)
        /\ \A n \in TableNames : Len(LoadCallsOf(n)) <= 1
        /\ \A i \in 1..Len(calls) : \A j \in 1..Len(calls) :
              i < j => /\ CallPhase(calls[i]) <= CallPhase(calls[j])
                       /\ CallPhase(calls[i]) = CallPhase(calls[j])
                          => CallPhase(calls[i]) = 2

\* a completed run over two ids, the first fetch failed and was not repeated:
\* six calls in all
C18_Witness ==
    /\ pc = "COMPLETE"
    /\ Len(project_numbers) = 2
    /\ ~calls[2].ok
    /\ calls[3].ok
    /\ Len(calls) = 6

-----------------------------------------------------------------------------
(* C19 *)

\* the retrieved records with each payload serialized once
Serialized(maps) ==
    [i \in 1..Len(maps) |->
        [project_number |-> maps[i].project_number,
         iam_policy |-> json_dumps(maps[i].iam_policy)]]

SomePayloadIsText ==
    \E i \in 1..Len(iam_policy_maps) : IsText(iam_policy_maps[i].iam_policy)

\* C19: a payload is serialized text only once the flattened write has
\* consumed the generator and has passed, so the generator has read the
\* policies as the source returned them and never raises on a text payload;
\* from the serialization on, the list holds every retrieved record with its
\* payload serialized exactly once, and that is what the raw write stores.
C19_FlattenedBeforeSerialized ==
    /\ SomePayloadIsText =>
          /\ generator = "exhausted"
          /\ Len(LoadCallsOf(RESOURCE_NAME)) = 1
          /\ LoadCallsOf(RESOURCE_NAME)[1].ok
    /\ generator = "exhausted" =>
          flattened_iam_policies = _flatten(Fetched)
    /\ raised # None => raised[1].type = "LoadDataPipelineError"
    /\ pc \in {"dumps", "load_flattened", "flatten"} =>
          iam_policy_maps = Fetched
    /\ (pc \in {"load_raw", "count", "COMPLETE"}
          \/ LoadCallsOf(RAW_RESOURCE_NAME) # <<>>)
       => iam_policy_maps = Serialized(Fetched)
    /\ pc \in {"count", "COMPLETE"} =>
          RowsOf(RAW_RESOURCE_NAME) = Serialized(Fetched)

\* between the serialization and the raw write: every payload is text and
\* the records were flattened from the nested policies
C19_Witness ==
    /\ pc = "load_raw"
    /\ Len(iam_policy_maps) = 2
    /\ \A i \in 1..Len(iam_policy_maps) : IsText(iam_policy_maps[i].iam_policy)
    /\ generator = "exhausted"
    /\ flattened_iam_policies # <<>>

-----------------------------------------------------------------------------
(* C20 *)

\* a binding that has both a role and members
IsWhole(binding) == {"role", "members"} \subseteq DOMAIN binding

\* maps without the bindings that lack a role or members
StripIncomplete(maps) ==
    [i \in 1..Len(maps) |->
        IF "bindings" \in DOMAIN maps[i].iam_policy
        THEN [maps[i] EXCEPT !.iam_policy.bindings = SelectSeq(@, IsWhole)]
        ELSE maps[i]]

\* C20: a policy without bindings, a binding without members and a binding
\* without a role yield no record and raise nothing; the generator goes on
\* and yields just what it would yield without them.
C20_MissingPartsAreEmpty ==
    generator = "exhausted" =>
        /\ \A i \in 1..Len(Fetched) :
              /\ "bindings" \notin DOMAIN Fetched[i].iam_policy
                 => FlattenBindings(Fetched[i],
                                    BindingsOf(Fetched[i].iam_policy)) = <<>>
              /\ \A b \in 1..Len(BindingsOf(Fetched[i].iam_policy)) :
                    LET binding == BindingsOf(Fetched[i].iam_policy)[b]
                    IN  ~IsWhole(binding) =>
                            FlattenMembers(Fetched[i], binding,
                                           MembersOf(binding)) = <<>>
        /\ flattened_iam_policies = _flatten(StripIncomplete(Fetched))
        /\ Len(flattened_iam_policies) = MemberCountSum(Fetched)
        /\ raised # None => raised[1].type = "LoadDataPipelineError"

\* a policy without bindings followed by the policy with a binding without
\* role and a binding without members: the four records of its two whole
\* prefixed bindings are yielded, the last ones after the incomplete bindings
C20_Witness ==
    /\ generator = "exhausted"
    /\ Len(Fetched) = 2
    /\ Fetched[1].iam_policy = PolicyNoBindings
    /\ Fetched[2].iam_policy = PolicyMixed
    /\ Len(flattened_iam_policies) = 4
    /\ flattened_iam_policies[4].project_number = Fetched[2].project_number

====
